---- MODULE Spec2Model ----
(***************************************************************************)
(* Model of newtoallofthis123/rag_learn.                                   *)
(*                                                                         *)
(*   blog_rag/api.py, blog_rag/rag.py : the blog question-answering        *)
(*       service: start-up (credential check, crawl, fetch, chunk, embed)  *)
(*       and the two request handlers search and ask.  Specification Spec. *)
(*   patient_system/db.py : the SQLite patient store (create, select,      *)
(*       delete under one connection).  Specification SpecDB.              *)
(*                                                                         *)
(* Texts that the program cuts or strips are sequences of one-character    *)
(* strings; URLs and questions are strings.  Similarity scores are kept    *)
(* in hundredths (0.5 is 50).                                              *)
(***************************************************************************)
EXTENDS Integers, Sequences, FiniteSets, TLC

VARIABLES
    pc,              \* api.py: how far the module-level start-up code has run
    google_api_key,  \* api.py:21  os.environ.get("GOOGLE_GEMINI_API_KEY")
    links,           \* rag.py:25  what parse_blogurls() returned
    urls,            \* rag.py:39  self.urls
    docs,            \* rag.py:40  self.docs
    vector_store,    \* rag.py:44  self.vector_store (the Index)
    llm_cache,       \* rag.py:46  the process-wide InMemoryCache
    calls,           \* number of requests sent to the text-generation provider
    last,            \* the last request handled and what it returned
    conn,            \* db.py:15   the connection's view of the database
    disk,            \* the committed database
    created,         \* history: id -> patient_data of every successful create
    deleted,         \* history: ids passed to delete_patient
    lastOp           \* history: the last PatientDatabase call and its result

ragvars == <<pc, google_api_key, links, urls, docs, vector_store, llm_cache, calls, last>>
dbvars == <<conn, disk, created, deleted, lastOp>>
vars == <<pc, google_api_key, links, urls, docs, vector_store, llm_cache, calls, last,
          conn, disk, created, deleted, lastOp>>

(***************************************************************************)
(* Bounds of the model                                                     *)
(***************************************************************************)
MaxAnchors == 3
MaxDocLen == 2
MaxCalls == 2
MaxCreates == 2
MaxItems == 2

(***************************************************************************)
(* Program constants                                                       *)
(***************************************************************************)
ChunkSize == 1000
ChunkOverlap == 200
Threshold == 50
K == 1

BASE_URL == "https://www.noobscience.in"

None == "None"

Min(a, b) == IF a < b THEN a ELSE b

(***************************************************************************)
(* Text helpers (Python str methods used by the program and its splitter)  *)
(***************************************************************************)
Whitespace == {" ", "\n", "\t"}

Alphabet == {"a", " "}

RECURSIVE LStrip(_)
LStrip(t) ==
    IF t # <<>> /\ Head(t) \in Whitespace THEN LStrip(Tail(t)) ELSE t

RECURSIVE RStrip(_)
RStrip(t) ==
    IF t # <<>> /\ t[Len(t)] \in Whitespace
    THEN RStrip(SubSeq(t, 1, Len(t) - 1))
    ELSE t

\* variant: chunks kept as cut, whitespace included
StripIdentity(t) == t

\* str.strip()
Strip(t) == RStrip(LStrip(t))

\* sep.join(parts); empty is the empty value of the joined type
RECURSIVE Join(_, _, _)
Join(sep, parts, empty) ==
    IF parts = <<>> THEN empty
    ELSE IF Len(parts) = 1 THEN parts[1]
    ELSE parts[1] \o sep \o Join(sep, Tail(parts), empty)

RECURSIVE Flatten(_)
Flatten(ss) == IF ss = <<>> THEN <<>> ELSE Head(ss) \o Flatten(Tail(ss))

(***************************************************************************)
(* Chunker: RecursiveCharacterTextSplitter(chunk_size=1000,                *)
(* chunk_overlap=200) as constructed at rag.py:51-53, with the splitter's  *)
(* defaults: separators "\n\n", "\n", " ", "", separators kept at the      *)
(* start of the following piece, length measured in characters, and every  *)
(* chunk stripped of leading and trailing whitespace.                      *)
(***************************************************************************)
Separators == << <<"\n", "\n">>, <<"\n">>, <<" ">>, <<>> >>

\* index of the leftmost occurrence of sep in text, 0 when there is none
FirstAt(text, sep) ==
    LET at == {i \in 1..(Len(text) - Len(sep) + 1) : SubSeq(text, i, i + Len(sep) - 1) = sep}
    IN IF at = {} THEN 0 ELSE CHOOSE i \in at : \A j \in at : i <= j

\* the pieces of text between the non-overlapping occurrences of sep
RECURSIVE re_split(_, _)
re_split(text, sep) ==
    LET i == FirstAt(text, sep)
    IN IF i = 0 THEN <<text>>
       ELSE <<SubSeq(text, 1, i - 1)>> \o re_split(SubSeq(text, i + Len(sep), Len(text)), sep)

split_text_with_regex(text, sep) ==
    LET p == re_split(text, sep)
        splits == IF sep = <<>>
                  THEN [i \in 1..Len(text) |-> <<text[i]>>]
                  ELSE <<p[1]>> \o [i \in 1..(Len(p) - 1) |-> sep \o p[i + 1]]
    IN SelectSeq(splits, LAMBDA s : s # <<>>)

\* the joined chunk, stripped; no chunk at all when nothing is left
join_docs(cur, separator) ==
    LET text == Strip(Join(separator, cur, <<>>))
    IN IF text = <<>> THEN <<>> ELSE <<text>>

\* drop pieces from the front of the window until the overlap fits
RECURSIVE Shrink(_, _, _, _)
Shrink(cur, total, len, seplen) ==
    IF cur # <<>>
       /\ (total > ChunkOverlap
           \/ (total + len + (IF Len(cur) > 0 THEN seplen ELSE 0) > ChunkSize /\ total > 0))
    THEN Shrink(Tail(cur), total - (Len(cur[1]) + (IF Len(cur) > 1 THEN seplen ELSE 0)),
                len, seplen)
    ELSE <<cur, total>>

RECURSIVE MergeLoop(_, _, _, _, _)
MergeLoop(splits, chunks, cur, total, separator) ==
    IF splits = <<>> THEN chunks \o join_docs(cur, separator)
    ELSE LET d == Head(splits)
             seplen == Len(separator)
             flush == total + Len(d) + (IF Len(cur) > 0 THEN seplen ELSE 0) > ChunkSize
                      /\ Len(cur) > 0
             chunks2 == IF flush THEN chunks \o join_docs(cur, separator) ELSE chunks
             sh == IF flush THEN Shrink(cur, total, Len(d), seplen) ELSE <<cur, total>>
             cur2 == Append(sh[1], d)
             total2 == sh[2] + Len(d) + (IF Len(cur2) > 1 THEN seplen ELSE 0)
         IN MergeLoop(Tail(splits), chunks2, cur2, total2, separator)

merge_splits(splits, separator) == MergeLoop(splits, <<>>, <<>>, 0, separator)

RECURSIVE split_text(_, _)
RECURSIVE SplitLoop(_, _, _, _)
SplitLoop(splits, final, good, new_separators) ==
    IF splits = <<>>
    THEN IF good # <<>> THEN final \o merge_splits(good, <<>>) ELSE final
    ELSE LET s == Head(splits)
         IN IF Len(s) < ChunkSize
            THEN SplitLoop(Tail(splits), final, Append(good, s), new_separators)
            ELSE LET final2 == IF good # <<>> THEN final \o merge_splits(good, <<>>)
                               ELSE final
                     final3 == IF new_separators = <<>> THEN Append(final2, s)
                               ELSE final2 \o split_text(s, new_separators)
                 IN SplitLoop(Tail(splits), final3, <<>>, new_separators)

split_text(text, separators) ==
    LET hit == {i \in DOMAIN separators :
                   separators[i] = <<>> \/ FirstAt(text, separators[i]) # 0}
        i == IF hit = {} THEN Len(separators) ELSE CHOOSE m \in hit : \A n \in hit : m <= n
        separator == separators[i]
        new_separators == IF hit = {} \/ separator = <<>> THEN <<>>
                          ELSE SubSeq(separators, i + 1, Len(separators))
    IN SplitLoop(split_text_with_regex(text, separator), <<>>, <<>>, new_separators)

\* one Segment per chunk, each with its Document's metadata
split_documents(documents) ==
    Flatten([i \in DOMAIN documents |->
                LET chunks == split_text(documents[i].page_content, Separators)
                IN [j \in DOMAIN chunks |->
                       [page_content |-> chunks[j], source |-> documents[i].source]]])

(***************************************************************************)
(* Start-up: api.py module level, CustomGeminiRAG.__init__                 *)
(***************************************************************************)
Texts == UNION {[1..n -> Alphabet] : n \in 0..MaxDocLen}

\* a listing page: its anchors in document order
Anchors(i) == [class : {"underline", "plain"}, href : {"/blog/" \o ToString(i)}]

Pages == UNION {{p \in [1..n -> UNION {Anchors(i) : i \in 1..n}] :
                    \A i \in 1..n : p[i] \in Anchors(i)} : n \in 0..MaxAnchors}

Questions == {"q1", "q2"}

Scores == {30, 50, 72}

NoRequest ==
    [op |-> "none", query |-> "", scores |-> <<>>, results |-> <<>>, returned |-> <<>>,
     context |-> <<>>, logged |-> "", prompt |-> <<>>, invoked |-> FALSE, response |-> 0]

\* rag.py:18-25: the href of every anchor of class "underline", in page order
parse_blogurls(page) ==
    LET marked == SelectSeq(page, LAMBDA a : a.class = "underline")
    IN [i \in DOMAIN marked |-> marked[i].href]

\* variant: no href left out
AllUrls(hrefs) == [i \in DOMAIN hrefs |-> BASE_URL \o hrefs[i]]

\* rag.py:39: [(BASE_URL + a) for a in parse_blogurls()[1:]]
BlogUrls(hrefs) ==
    LET rest == SubSeq(hrefs, 2, Len(hrefs))
    IN [i \in DOMAIN rest |-> BASE_URL \o rest[i]]

\* rag.py:28-34: one Document per path the loader was given, in order
get_blog_documents(paths, texts) ==
    [i \in DOMAIN paths |-> [page_content |-> texts[i], source |-> paths[i]]]

\* api.py:21-24
CheckKey ==
    /\ pc = "boot"
    /\ pc' = IF google_api_key = "" THEN "exited" ELSE "crawl"
    /\ UNCHANGED <<google_api_key, links, urls, docs, vector_store, llm_cache, calls, last>>
    /\ UNCHANGED dbvars

\* api.py:27 entering rag.py:39
Crawl ==
    /\ pc = "crawl"
    /\ \E page \in Pages :
          /\ links' = parse_blogurls(page)
          /\ urls' = BlogUrls(parse_blogurls(page))
    /\ pc' = "fetch"
    /\ UNCHANGED <<google_api_key, docs, vector_store, llm_cache, calls, last>>
    /\ UNCHANGED dbvars

\* rag.py:40.  WebBaseLoader(web_paths=[]) falls back to its default single
\* path "", and fetching "" raises: start-up ends with the exception.
Fetch ==
    /\ pc = "fetch"
    /\ IF urls = <<>>
       THEN /\ pc' = "crashed"
            /\ UNCHANGED docs
       ELSE /\ \E texts \in [DOMAIN urls -> Texts] : docs' = get_blog_documents(urls, texts)
            /\ pc' = "index"
    /\ UNCHANGED <<google_api_key, links, urls, vector_store, llm_cache, calls, last>>
    /\ UNCHANGED dbvars

\* rag.py:50-58: the Segments of self.docs, stored in chunk order
prepare_vector_store(documents) == split_documents(documents)

\* rag.py:41-47.  The embedding provider is called only when there is a
\* Segment to embed, and it accepts or rejects the request.  With no key
\* given (None), the provider clients look for a credential on their own
\* when they are made, and fail when they find none.
BuildIndex ==
    /\ pc = "index"
    /\ \E accepted \in BOOLEAN :
          IF accepted \/ (google_api_key # None /\ prepare_vector_store(docs) = <<>>)
          THEN /\ vector_store' = prepare_vector_store(docs)
               /\ llm_cache' = {}
               /\ pc' = "serving"
          ELSE /\ pc' = "crashed"
               /\ UNCHANGED <<vector_store, llm_cache>>
    /\ UNCHANGED <<google_api_key, links, urls, docs, calls, last>>
    /\ UNCHANGED dbvars

(***************************************************************************)
(* Request handlers: CustomGeminiRAG.search and CustomGeminiRAG.ask        *)
(***************************************************************************)
\* the orders of the stored entries in which scores never increase
Rankings(scores) ==
    {o \in [DOMAIN scores -> DOMAIN scores] :
        /\ \A i, j \in DOMAIN scores : i # j => o[i] # o[j]
        /\ \A i, j \in DOMAIN scores : i < j => scores[o[i]] >= scores[o[j]]}

\* rag.py:61: the k best (Segment, score) pairs, best first; entries of
\* equal score come in an order the store chooses
similarity_search_with_score(store, scores, k) ==
    {[i \in 1..Min(k, Len(store)) |-> <<store[o[i]], scores[o[i]]>>] : o \in Rankings(scores)}

\* variant: a score of exactly 0.5 passes
RelevantAtLeast(results) ==
    LET kept == SelectSeq(results, LAMBDA a : a[2] >= Threshold)
    IN [i \in DOMAIN kept |-> kept[i][1]]

\* rag.py:62: [a[0] for a in results if a[1] > 0.5]
Relevant(results) ==
    LET kept == SelectSeq(results, LAMBDA a : a[2] > Threshold)
    IN [i \in DOMAIN kept |-> kept[i][1]]

\* rag.py:14-15
DEFAULT_PROMPT_TEMPLATE ==
    << [kind |-> "text", v |-> "Answer the following question to a user "],
       [kind |-> "var", v |-> "question"],
       [kind |-> "text", v |-> " \nwith the following context "],
       [kind |-> "var", v |-> "context"] >>

\* rag.py:70: every {name} of the template replaced by its value
PromptInvoke(template, values) ==
    [i \in DOMAIN template |->
        IF template[i].kind = "var" THEN values[template[i].v] ELSE template[i].v]

\* variant: a placeholder stands for an empty context
ContextPlaceholder(rel_docs) ==
    IF rel_docs = <<>> THEN <<"n", "o", "n", "e">>
    ELSE Join(<<"\n", "\n">>, [i \in DOMAIN rel_docs |-> rel_docs[i].page_content], <<>>)

\* rag.py:66
Context(rel_docs) ==
    Join(<<"\n", "\n">>, [i \in DOMAIN rel_docs |-> rel_docs[i].page_content], <<>>)

\* rag.py:67-69
SourceLog(rel_docs) ==
    "Using content of " \o Join(",", [i \in DOMAIN rel_docs |-> rel_docs[i].source], "") \o " "

\* variant: no cache is consulted
CacheLookupNever(cache, prompt) == {}

\* rag.py:46,71: the responses the process-wide cache holds for this prompt
CacheLookup(cache, prompt) == {e.response : e \in {c \in cache : c.prompt = prompt}}

\* variant: a search that consumes the entry it looked at
searchDropsEntry(query) ==
    /\ pc = "serving"
    /\ vector_store # <<>>
    /\ vector_store' = Tail(vector_store)
    /\ last' = [NoRequest EXCEPT !.op = "search", !.query = query]
    /\ UNCHANGED <<pc, google_api_key, links, urls, docs, llm_cache, calls>>
    /\ UNCHANGED dbvars

\* api.py:31-41 calling rag.py:60-62
search(query) ==
    /\ pc = "serving"
    /\ \E scores \in [DOMAIN vector_store -> Scores] :
          \E results \in similarity_search_with_score(vector_store, scores, K) :
             last' = [NoRequest EXCEPT !.op = "search", !.query = query,
                                       !.scores = scores, !.results = results,
                                       !.returned = Relevant(results)]
    /\ UNCHANGED <<pc, google_api_key, links, urls, docs, vector_store, llm_cache, calls>>
    /\ UNCHANGED dbvars

\* api.py:44-48 calling rag.py:64-73
ask(question) ==
    /\ pc = "serving"
    /\ \E scores \in [DOMAIN vector_store -> Scores] :
          \E results \in similarity_search_with_score(vector_store, scores, K) :
             LET rel_docs == Relevant(results)
                 context == Context(rel_docs)
                 final_prompt == PromptInvoke(DEFAULT_PROMPT_TEMPLATE,
                                              [question |-> question, context |-> context])
                 cached == CacheLookup(llm_cache, final_prompt)
                 request == [NoRequest EXCEPT !.op = "ask", !.query = question,
                                              !.scores = scores, !.results = results,
                                              !.returned = rel_docs, !.context = context,
                                              !.logged = SourceLog(rel_docs),
                                              !.prompt = final_prompt]
             IN IF cached # {}
                THEN /\ last' = [request EXCEPT !.response = CHOOSE r \in cached : TRUE]
                     /\ UNCHANGED <<llm_cache, calls>>
                ELSE /\ calls < MaxCalls
                     /\ calls' = calls + 1
                     /\ llm_cache' = llm_cache \cup
                                       {[prompt |-> final_prompt, response |-> calls + 1]}
                     /\ last' = [request EXCEPT !.invoked = TRUE, !.response = calls + 1]
    /\ UNCHANGED <<pc, google_api_key, links, urls, docs, vector_store>>
    /\ UNCHANGED dbvars

(***************************************************************************)
(* PatientDatabase (patient_system/db.py)                                  *)
(***************************************************************************)
\* SQLite values with their storage class
Text(s) == [ty |-> "text", v |-> s]
Number(s) == [ty |-> "integer", v |-> s]
NULL == [ty |-> "null", v |-> <<>>]

Digits == {"0", "1", "2", "3", "4", "5", "6", "7", "8", "9"}

RECURSIVE Canonical(_)
Canonical(s) == IF Len(s) > 1 /\ Head(s) = "0" THEN Canonical(Tail(s)) ELSE s

\* a value kept as given
KeepValue(x) == x

\* db.py:44-46,57: a TEXT column stores a number as its text
TextAffinity(x) == IF x.ty = "integer" THEN Text(x.v) ELSE x

\* db.py:28: an INTEGER column stores a text of digits as the number
IntegerAffinity(x) ==
    IF x.ty = "text" /\ x.v # <<>> /\ \A i \in DOMAIN x.v : x.v[i] \in Digits
    THEN Number(Canonical(x.v))
    ELSE x

\* db.py:19-62: the three tables, empty, with their AUTOINCREMENT counters
EmptyDb ==
    [patients |-> <<>>, problems |-> <<>>, conditions |-> <<>>,
     sqlite_sequence |-> [patients |-> 0, problems |-> 0, conditions |-> 0]]

PatientColumns ==
    {"name", "age", "gender", "address", "identity", "phone", "description",
     "recommended_doctor"}

ProblemColumns == {"name", "duration", "description"}

\* dict.get(key, [])
GetList(d, key) == IF key \in DOMAIN d THEN d[key] ELSE <<>>

\* db.py:73-90: INSERT INTO patients
InsertPatient(db, d) ==
    LET id == db.sqlite_sequence.patients + 1
        row == [id |-> id,
                name |-> TextAffinity(d["name"]),
                age |-> IntegerAffinity(d["age"]),
                gender |-> TextAffinity(d["gender"]),
                address |-> TextAffinity(d["address"]),
                identity |-> TextAffinity(d["identity"]),
                phone |-> TextAffinity(d["phone"]),
                description |-> TextAffinity(d["description"]),
                recommended_doctor |-> TextAffinity(d["recommended_doctor"])]
    IN [db EXCEPT !.patients = Append(@, row), !.sqlite_sequence.patients = id]

\* db.py:94-100: INSERT INTO problems
InsertProblem(db, patient_id, problem) ==
    LET id == db.sqlite_sequence.problems + 1
        row == [id |-> id, patient_id |-> patient_id,
                name |-> TextAffinity(problem["name"]),
                duration |-> TextAffinity(problem["duration"]),
                description |-> TextAffinity(problem["description"])]
    IN [db EXCEPT !.problems = Append(@, row), !.sqlite_sequence.problems = id]

\* db.py:104-110: INSERT INTO conditions
InsertCondition(db, patient_id, condition) ==
    LET id == db.sqlite_sequence.conditions + 1
        row == [id |-> id, patient_id |-> patient_id, condition |-> TextAffinity(condition)]
    IN [db EXCEPT !.conditions = Append(@, row), !.sqlite_sequence.conditions = id]

\* db.py:93-100: the loop stops at the first entry that lacks a key
RECURSIVE InsertProblems(_, _, _)
InsertProblems(db, patient_id, problems) ==
    IF problems = <<>> THEN [db |-> db, error |-> FALSE]
    ELSE IF ~(ProblemColumns \subseteq DOMAIN Head(problems))
         THEN [db |-> db, error |-> TRUE]
         ELSE InsertProblems(InsertProblem(db, patient_id, Head(problems)), patient_id,
                             Tail(problems))

\* db.py:103-110
RECURSIVE InsertConditions(_, _, _)
InsertConditions(db, patient_id, conditions) ==
    IF conditions = <<>> THEN db
    ELSE InsertConditions(InsertCondition(db, patient_id, Head(conditions)), patient_id,
                          Tail(conditions))

\* db.py:71-110: the statements create_patient executes before it commits
\* or fails.  A key missing from patient_data raises while the parameters
\* are collected; a NULL name is refused by the NOT NULL constraint.
CreateStatements(db, d) ==
    IF ~(PatientColumns \subseteq DOMAIN d) \/ d["name"] = NULL
    THEN [db |-> db, error |-> TRUE, id |-> 0]
    ELSE LET withPatient == InsertPatient(db, d)
             patient_id == withPatient.sqlite_sequence.patients
             withProblems == InsertProblems(withPatient, patient_id, GetList(d, "problems"))
         IN IF withProblems.error
            THEN [db |-> withProblems.db, error |-> TRUE, id |-> patient_id]
            ELSE [db |-> InsertConditions(withProblems.db, patient_id,
                                          GetList(d, "conditions")),
                  error |-> FALSE, id |-> patient_id]

\* variant: the failed call's rows stay in the connection's view
rollbackKeepsWork(work, committed) == work

\* db.py:115: the connection's view goes back to the last commit
rollback(work, committed) == committed

\* db.py:119-173: <<>> stands for None, <<record>> for the dict returned
select_patient(db, patient_id) ==
    LET rows == SelectSeq(db.patients, LAMBDA r : r.id = patient_id)
        problem_rows == SelectSeq(db.problems, LAMBDA r : r.patient_id = patient_id)
        condition_rows == SelectSeq(db.conditions, LAMBDA r : r.patient_id = patient_id)
    IN IF rows = <<>> THEN <<>>
       ELSE << [id |-> rows[1].id, name |-> rows[1].name, age |-> rows[1].age,
                gender |-> rows[1].gender, address |-> rows[1].address,
                identity |-> rows[1].identity, phone |-> rows[1].phone,
                description |-> rows[1].description,
                recommended_doctor |-> rows[1].recommended_doctor,
                problems |-> [i \in DOMAIN problem_rows |->
                                 [name |-> problem_rows[i].name,
                                  duration |-> problem_rows[i].duration,
                                  description |-> problem_rows[i].description]],
                conditions |-> [i \in DOMAIN condition_rows |->
                                   condition_rows[i].condition]] >>

\* db.py:175-197
select_all_patients(db) ==
    Flatten([i \in DOMAIN db.patients |-> select_patient(db, db.patients[i].id)])

\* variant: the patients row is not deleted
deleteKeepsPatient(db, patient_id) ==
    [db EXCEPT !.problems = SelectSeq(@, LAMBDA r : r.patient_id # patient_id),
               !.conditions = SelectSeq(@, LAMBDA r : r.patient_id # patient_id)]

\* variant: the problems rows are not deleted
deleteKeepsProblems(db, patient_id) ==
    [db EXCEPT !.conditions = SelectSeq(@, LAMBDA r : r.patient_id # patient_id),
               !.patients = SelectSeq(@, LAMBDA r : r.id # patient_id)]

\* db.py:206-214: the three DELETE statements
DeleteStatements(db, patient_id) ==
    [db EXCEPT !.problems = SelectSeq(@, LAMBDA r : r.patient_id # patient_id),
               !.conditions = SelectSeq(@, LAMBDA r : r.patient_id # patient_id),
               !.patients = SelectSeq(@, LAMBDA r : r.id # patient_id)]

\* the patient_data dictionaries handed to create_patient
Restrict(f, keys) == [k \in keys |-> f[k]]

P1 == [name |-> Text(<<"f", "l", "u">>), duration |-> Text(<<"2", "d">>),
       description |-> Text(<<"x">>)]

P2 == [name |-> Text(<<"r", "a", "s", "h">>), duration |-> Text(<<"1", "w">>),
       description |-> Text(<<"y">>)]

\* a problem entry that lacks "duration"
BadProblem == [name |-> Text(<<"f", "l", "u">>), description |-> Text(<<"x">>)]

ProblemLists == UNION {[1..n -> {P1, P2, BadProblem}] : n \in 0..MaxItems}

ConditionLists == UNION {[1..n -> {Text(<<"c">>), Number(<<"7">>)}] : n \in 0..MaxItems}

FullPatient(name, problems, conditions) ==
    [name |-> name, age |-> Number(<<"3", "0">>), gender |-> Text(<<"f">>),
     address |-> Text(<<"s", "t">>), identity |-> Text(<<"i", "d">>),
     phone |-> Text(<<"5", "5", "5">>), description |-> Text(<<"d">>),
     recommended_doctor |-> Text(<<"d", "r">>),
     problems |-> problems, conditions |-> conditions]

PatientInputs ==
    UNION {{FullPatient(Text(<<"A", "l">>), x[1], x[2]),
            FullPatient(NULL, x[1], x[2]),
            Restrict(FullPatient(NULL, x[1], x[2]),
                     DOMAIN FullPatient(NULL, x[1], x[2]) \ {"name"})} :
              x \in {y \in ProblemLists \X ConditionLists :
                        Len(y[1]) + Len(y[2]) <= MaxItems}}

PatientIds == 1..MaxCreates

NoCall == [op |-> "none", id |-> 0, data |-> <<>>, result |-> <<>>]

\* db.py:64-117
CreatePatient(patient_data) ==
    /\ conn.sqlite_sequence.patients < MaxCreates
    /\ LET run == CreateStatements(conn, patient_data)
       IN IF run.error
          THEN /\ conn' = rollback(run.db, disk)
               /\ disk' = disk
               /\ lastOp' = [op |-> "create", id |-> 0, data |-> <<patient_data>>,
                             result |-> <<>>]
               /\ UNCHANGED <<created, deleted>>
          ELSE /\ conn' = run.db
               /\ disk' = run.db
               /\ created' = created \cup {[id |-> run.id, data |-> patient_data]}
               /\ deleted' = deleted \ {run.id}
               /\ lastOp' = [op |-> "create", id |-> run.id, data |-> <<patient_data>>,
                             result |-> <<run.id>>]
    /\ UNCHANGED ragvars

\* db.py:199-221
DeletePatient(patient_id) ==
    /\ conn' = DeleteStatements(conn, patient_id)
    /\ disk' = DeleteStatements(conn, patient_id)
    /\ deleted' = deleted \cup {patient_id}
    /\ lastOp' = [op |-> "delete", id |-> patient_id, data |-> <<>>, result |-> <<TRUE>>]
    /\ UNCHANGED created
    /\ UNCHANGED ragvars

\* db.py:119-173
SelectPatient(patient_id) ==
    /\ lastOp' = [op |-> "select", id |-> patient_id, data |-> <<>>,
                  result |-> select_patient(conn, patient_id)]
    /\ UNCHANGED <<conn, disk, created, deleted>>
    /\ UNCHANGED ragvars

\* db.py:175-197
SelectAllPatients ==
    /\ lastOp' = [op |-> "select_all", id |-> 0, data |-> <<>>,
                  result |-> select_all_patients(conn)]
    /\ UNCHANGED <<conn, disk, created, deleted>>
    /\ UNCHANGED ragvars

\* db.py:6-17 on a new database file
DbInit ==
    /\ conn = EmptyDb
    /\ disk = EmptyDb
    /\ created = {}
    /\ deleted = {}
    /\ lastOp = NoCall

(***************************************************************************)
(* The blog service                                                        *)
(***************************************************************************)
Init ==
    /\ pc = "boot"
    /\ google_api_key \in {None, "", "key"}
    /\ links = <<>>
    /\ urls = <<>>
    /\ docs = <<>>
    /\ vector_store = <<>>
    /\ llm_cache = {}
    /\ calls = 0
    /\ last = NoRequest
    /\ DbInit

Next ==
    \/ CheckKey
    \/ Crawl
    \/ Fetch
    \/ BuildIndex
    \/ \E query \in Questions : search(query)
    \/ \E question \in Questions : ask(question)

Spec == Init /\ [][Next]_vars

(***************************************************************************)
(* The patient store                                                       *)
(***************************************************************************)
InitDB ==
    /\ pc = "boot"
    /\ google_api_key = "key"
    /\ links = <<>>
    /\ urls = <<>>
    /\ docs = <<>>
    /\ vector_store = <<>>
    /\ llm_cache = {}
    /\ calls = 0
    /\ last = NoRequest
    /\ DbInit

NextDB ==
    \/ \E patient_data \in PatientInputs : CreatePatient(patient_data)
    \/ \E patient_id \in PatientIds : DeletePatient(patient_id)
    \/ \E patient_id \in PatientIds : SelectPatient(patient_id)
    \/ SelectAllPatients

SpecDB == InitDB /\ [][NextDB]_vars

(***************************************************************************)
(* Properties of the blog service (specification Spec)                     *)
(***************************************************************************)
IsTop(scores, i) == \A j \in DOMAIN scores : scores[j] <= scores[i]

\* C1: search returns an empty list exactly when the top-1 similarity score
\* is at most 0.5, that is when no stored Segment scores above 0.5 (an empty
\* Index has none); otherwise it returns exactly one Segment, a top-scoring
\* one.  It never returns more than one entry.
C1_EmptyIffTopScoreLow ==
    last.op = "search" =>
        /\ Len(last.returned) <= 1
        /\ last.returned = <<>> <=>
              \A i \in DOMAIN last.scores : last.scores[i] <= Threshold
        /\ last.returned # <<>> =>
              \E i \in DOMAIN last.scores :
                 /\ IsTop(last.scores, i)
                 /\ last.scores[i] > Threshold
                 /\ last.returned = <<vector_store[i]>>

\* a search over two Segments that returned the second, the better one
C1_Witness ==
    /\ last.op = "search"
    /\ Len(vector_store) = 2
    /\ last.scores[1] < last.scores[2]
    /\ last.returned = <<vector_store[2]>>

\* C2: an ask whose filled prompt was not answered before sends exactly one
\* request to the text-generation provider; an ask whose filled prompt was
\* answered before sends none and returns the response of the first; so the
\* provider has been called once per distinct prompt.
C2_OneCallPerNewPrompt ==
    /\ [](/\ calls = Cardinality({e.prompt : e \in llm_cache})
          /\ \A e1, e2 \in llm_cache : e1.prompt = e2.prompt => e1 = e2)
    /\ [][last'.op = "ask" =>
             LET answered == {e \in llm_cache : e.prompt = last'.prompt}
             IN /\ answered # {} =>
                      /\ calls' = calls
                      /\ ~last'.invoked
                      /\ \A e \in answered : last'.response = e.response
                /\ answered = {} =>
                      /\ calls' = calls + 1
                      /\ last'.invoked
                      /\ [prompt |-> last'.prompt, response |-> last'.response]
                            \in llm_cache']_vars

\* a repeated ask served from the cache after two different prompts were sent
C2_Witness ==
    /\ last.op = "ask"
    /\ ~last.invoked
    /\ calls = 2
    /\ \E e \in llm_cache : e.prompt = last.prompt /\ e.response = 1

\* C3: an ask whose search found no Segment fills the prompt with the
\* question and an empty context, logs an empty list of sources, and
\* returns the generation model's response to that prompt.
C3_EmptyRetrievalStillAnswers ==
    (last.op = "ask" /\ last.returned = <<>>) =>
        /\ last.context = <<>>
        /\ last.prompt = <<"Answer the following question to a user ", last.query,
                           " \nwith the following context ", <<>> >>
        /\ last.logged = "Using content of  "
        /\ \E e \in llm_cache : e.prompt = last.prompt /\ e.response = last.response

\* an ask over a non-empty Index whose best score did not pass the threshold
C3_Witness ==
    /\ last.op = "ask"
    /\ vector_store # <<>>
    /\ last.returned = <<>>
    /\ last.invoked

\* C4: once the service is built, no search or ask changes the Index.
C4_IndexReadOnly == [][pc = "serving" => vector_store' = vector_store]_vars

\* both handlers have run against a non-empty Index
C4_Witness ==
    /\ pc = "serving"
    /\ vector_store # <<>>
    /\ last.op = "search"
    /\ calls > 0

\* C5 as stated: with the credential missing (the variable unset or empty)
\* the service never gets to build an index or to serve requests.
C5_MissingKeyNeverServes ==
    google_api_key \in {None, ""} => pc # "serving"

\* C6 as stated: the URLs handed to the Document Fetcher are the base URL
\* prepended to every href the Crawler extracted, none omitted.
C6_EveryLinkFetched ==
    pc \in {"fetch", "index", "serving"} =>
        /\ Len(urls) = Len(links)
        /\ \A i \in DOMAIN links : urls[i] = BASE_URL \o links[i]

\* C6, amended: the URLs handed to the Document Fetcher are the base URL
\* prepended to every href the Crawler extracted except the first, in
\* listing order, and the Fetcher produces one Document per URL in order.
C6_EveryLinkButFirstFetched ==
    /\ pc \in {"fetch", "index", "serving"} =>
          /\ Len(urls) = (IF links = <<>> THEN 0 ELSE Len(links) - 1)
          /\ \A i \in DOMAIN urls : urls[i] = BASE_URL \o links[i + 1]
    /\ pc \in {"index", "serving"} =>
          /\ Len(docs) = Len(urls)
          /\ \A i \in DOMAIN docs : docs[i].source = urls[i]

\* three links were extracted and the build went through
C6_Witness ==
    /\ pc = "serving"
    /\ Len(links) = 3
    /\ Len(docs) = 2

SegmentsOf(source) == SelectSeq(vector_store, LAMBDA e : e.source = source)

\* C7 as stated: a Document shorter than 1000 characters yields exactly one
\* Segment, with the Document's text and source URL.
C7_ShortDocumentOneIdenticalSegment ==
    pc = "serving" =>
        \A i \in DOMAIN docs :
           Len(docs[i].page_content) < ChunkSize =>
              SegmentsOf(docs[i].source) =
                 <<[page_content |-> docs[i].page_content, source |-> docs[i].source]>>

\* t is text without its leading and trailing whitespace
IsStripped(t, text) ==
    \E a \in 1..(Len(text) + 1), b \in 0..Len(text) :
       /\ t = SubSeq(text, a, b)
       /\ \A k \in 1..(a - 1) : text[k] \in Whitespace
       /\ \A k \in (b + 1)..Len(text) : text[k] \in Whitespace
       /\ t # <<>> => (t[1] \notin Whitespace /\ t[Len(t)] \notin Whitespace)

\* C7, amended: a Document shorter than 1000 characters yields exactly one
\* Segment, with the Document's source URL and the Document's text without
\* its leading and trailing whitespace, or no Segment at all when the text
\* is empty or only whitespace.
C7_ShortDocumentOneStrippedSegment ==
    pc = "serving" =>
        \A i \in DOMAIN docs :
           Len(docs[i].page_content) < ChunkSize =>
              IF \A k \in DOMAIN docs[i].page_content :
                    docs[i].page_content[k] \in Whitespace
              THEN SegmentsOf(docs[i].source) = <<>>
              ELSE /\ Len(SegmentsOf(docs[i].source)) = 1
                   /\ SegmentsOf(docs[i].source)[1].source = docs[i].source
                   /\ IsStripped(SegmentsOf(docs[i].source)[1].page_content,
                                 docs[i].page_content)

\* a Document that starts with a blank was indexed, next to one that is
\* only whitespace
C7_Witness ==
    /\ pc = "serving"
    /\ \E i \in DOMAIN docs :
          /\ docs[i].page_content # <<>>
          /\ docs[i].page_content[1] \in Whitespace
          /\ SegmentsOf(docs[i].source) # <<>>
    /\ \E i \in DOMAIN docs : SegmentsOf(docs[i].source) = <<>>

(***************************************************************************)
(* Properties of the patient store (specification SpecDB)                  *)
(***************************************************************************)
CreatedIds == {c.id : c \in created}

Live == CreatedIds \ deleted

DataOf(id) == (CHOOSE c \in created : c.id = id).data

\* how SQLite keeps a value in a TEXT column and in an INTEGER column
StoredAsText(x) == IF x.ty = "integer" THEN [ty |-> "text", v |-> x.v] ELSE x

StoredAsInteger(x) ==
    IF x.ty = "text" /\ x.v # <<>> /\ (\A i \in DOMAIN x.v : x.v[i] \in Digits)
       /\ (Len(x.v) = 1 \/ x.v[1] # "0")
    THEN [ty |-> "integer", v |-> x.v]
    ELSE x

\* the record select_patient is to return for id, from what create_patient
\* was given; AsText and AsInteger say how a value comes back from a TEXT
\* and from an INTEGER column
RecordOf(id, AsText(_), AsInteger(_)) ==
    LET d == DataOf(id)
    IN [id |-> id, name |-> AsText(d["name"]), age |-> AsInteger(d["age"]),
        gender |-> AsText(d["gender"]), address |-> AsText(d["address"]),
        identity |-> AsText(d["identity"]), phone |-> AsText(d["phone"]),
        description |-> AsText(d["description"]),
        recommended_doctor |-> AsText(d["recommended_doctor"]),
        problems |-> [i \in DOMAIN d["problems"] |->
                         [name |-> AsText(d["problems"][i]["name"]),
                          duration |-> AsText(d["problems"][i]["duration"]),
                          description |-> AsText(d["problems"][i]["description"])]],
        conditions |-> [i \in DOMAIN d["conditions"] |-> AsText(d["conditions"][i])]]

AllIds == 0..(MaxCreates + 1)

LiveInOrder == SelectSeq([i \in 1..(MaxCreates + 1) |-> i], LAMBDA id : id \in Live)

SelectsMatchHistory(AsText(_), AsInteger(_)) ==
    /\ \A c1, c2 \in created : c1.id = c2.id => c1 = c2
    /\ \A id \in AllIds :
          select_patient(conn, id) =
             IF id \in Live THEN <<RecordOf(id, AsText, AsInteger)>> ELSE <<>>
    /\ select_all_patients(conn) =
          [i \in DOMAIN LiveInOrder |-> RecordOf(LiveInOrder[i], AsText, AsInteger)]
    /\ lastOp.op = "select" => lastOp.result = select_patient(conn, lastOp.id)
    /\ lastOp.op = "select_all" => lastOp.result = select_all_patients(conn)

Unstorable(d) ==
    \/ ~(PatientColumns \subseteq DOMAIN d)
    \/ d["name"] = NULL
    \/ \E i \in DOMAIN GetList(d, "problems") :
          ~(ProblemColumns \subseteq DOMAIN GetList(d, "problems")[i])

\* C9: a create_patient that fails returns None and leaves the three tables
\* (and so every later select) exactly as they were before the call.
C9_FailedCreateChangesNothing ==
    [][(lastOp'.op = "create" /\ Unstorable(lastOp'.data[1])) =>
          /\ lastOp'.result = <<>>
          /\ conn' = conn
          /\ disk' = disk
          /\ select_all_patients(conn') = select_all_patients(conn)
          /\ \A id \in AllIds : select_patient(conn', id) = select_patient(conn, id)]_vars

\* a create_patient failed at its second problem, after the patient row and
\* the first problem row were inserted, on a database that holds a patient
C9_Witness ==
    /\ lastOp.op = "create"
    /\ lastOp.result = <<>>
    /\ PatientColumns \subseteq DOMAIN lastOp.data[1]
    /\ lastOp.data[1]["name"] # NULL
    /\ Len(lastOp.data[1]["problems"]) = 2
    /\ lastOp.data[1]["problems"][2] = BadProblem
    /\ conn.patients # <<>>

ReferentialIntegrity(db) ==
    /\ \A i \in DOMAIN db.problems :
          \E j \in DOMAIN db.patients : db.patients[j].id = db.problems[i].patient_id
    /\ \A i \in DOMAIN db.conditions :
          \E j \in DOMAIN db.patients : db.patients[j].id = db.conditions[i].patient_id

RowsOf(db, patient_id) ==
    [patients |-> SelectSeq(db.patients, LAMBDA r : r.id = patient_id),
     problems |-> SelectSeq(db.problems, LAMBDA r : r.patient_id = patient_id),
     conditions |-> SelectSeq(db.conditions, LAMBDA r : r.patient_id = patient_id)]

\* C10: every problems row and every conditions row belongs to an existing
\* patients row, in the connection's view and in the committed database;
\* delete_patient(id) removes the rows of id and leaves the rows of every
\* other patient unchanged.
C10_ReferentialIntegrity ==
    /\ [](ReferentialIntegrity(conn) /\ ReferentialIntegrity(disk))
    /\ [][lastOp'.op = "delete" =>
             /\ RowsOf(conn', lastOp'.id) =
                   [patients |-> <<>>, problems |-> <<>>, conditions |-> <<>>]
             /\ \A other \in AllIds \ {lastOp'.id} :
                   RowsOf(conn', other) = RowsOf(conn, other)
             /\ disk' = conn']_vars

\* a patient with problems was deleted while another patient with problems
\* and conditions stays
C10_Witness ==
    /\ lastOp.op = "delete"
    /\ lastOp.id \in CreatedIds
    /\ DataOf(lastOp.id)["problems"] # <<>>
    /\ conn.patients # <<>>
    /\ conn.problems # <<>>
    /\ conn.conditions # <<>>

====
